---------------------------- MODULE Spec2Model ----------------------------
(***************************************************************************)
(* go-migrator: the model-to-schema diff engine and the SQL generators.    *)
(*                                                                         *)
(* The repository holds the generator twice: as methods of Migrator        *)
(* (register.go, sql_helpers.go, model_comparison.go) and as package-level *)
(* functions (main.go).  impl says which of the two is running.            *)
(*                                                                         *)
(* A Go string is a sequence of one-character strings, so that             *)
(* strings.Split, strings.Contains, strings.Fields, strings.HasPrefix and  *)
(* strings.EqualFold are computed on the text as the code computes them.   *)
(***************************************************************************)
EXTENDS Integers, Sequences, FiniteSets, TLC

\* -------------------------------------------------------------- bounds
MaxModels == 2      \* models registered before a run
MaxFail   == 2      \* introspection queries that fail in one execution
MaxRuns   == 2      \* calls of GenerateMigrations on the same database

\* ----------------------------------------------------- package strings
IsSpace(c) == c \in {" ", "\n", "\t"}

HasPrefix(s, p) == Len(s) >= Len(p) /\ SubSeq(s, 1, Len(p)) = p

Contains(s, sub) ==
  \E i \in 1..(Len(s) - Len(sub) + 1) : SubSeq(s, i, i + Len(sub) - 1) = sub

\* strings.Split(s, sep) for a one-character separator: n separators give
\* n+1 parts, empty ones included; Split("", sep) is <<"">>.
SepsUpTo(s, sep, i) == Cardinality({j \in 1..i : s[j] = sep})

\* The position of the k-th separator; 0 for k = 0, Len(s)+1 past the last.
SepAt(s, sep, k) ==
  IF k = 0 THEN 0
  ELSE IF k > SepsUpTo(s, sep, Len(s)) THEN Len(s) + 1
  ELSE CHOOSE i \in 1..Len(s) : s[i] = sep /\ SepsUpTo(s, sep, i) = k

Split(s, sep) ==
  [k \in 1..(SepsUpTo(s, sep, Len(s)) + 1) |->
     SubSeq(s, SepAt(s, sep, k - 1) + 1, SepAt(s, sep, k) - 1)]

\* strings.Fields: the maximal runs of non-space characters.
WordStarts(s) ==
  {i \in 1..Len(s) : ~IsSpace(s[i]) /\ (i = 1 \/ IsSpace(s[i - 1]))}

WordEnds(s) ==
  {i \in 1..Len(s) : ~IsSpace(s[i]) /\ (i = Len(s) \/ IsSpace(s[i + 1]))}

\* The k-th smallest member of a set of positions.
Nth(set, k) == CHOOSE i \in set : Cardinality({j \in set : j <= i}) = k

Fields(s) ==
  [k \in 1..Cardinality(WordStarts(s)) |->
     SubSeq(s, Nth(WordStarts(s), k), Nth(WordEnds(s), k))]

RECURSIVE Join(_, _)
Join(parts, sep) ==
  IF parts = <<>> THEN <<>>
  ELSE IF Len(parts) = 1 THEN parts[1]
  ELSE parts[1] \o sep \o Join(Tail(parts), sep)

UpperLetters == <<"A","B","C","D","E","F","G","H","I","J","K","L","M","N","O","P","Q","R","S","T","U","V","W","X","Y","Z">>
LowerLetters == <<"a","b","c","d","e","f","g","h","i","j","k","l","m","n","o","p","q","r","s","t","u","v","w","x","y","z">>

FoldChar(c) ==
  IF \E i \in 1..26 : UpperLetters[i] = c
  THEN LowerLetters[CHOOSE i \in 1..26 : UpperLetters[i] = c]
  ELSE c

\* A comparison that tells upper from lower case.
EqualFold_caseSensitive(a, b) == a = b

EqualFold(a, b) ==
  /\ Len(a) = Len(b)
  /\ \A i \in 1..Len(a) : FoldChar(a[i]) = FoldChar(b[i])

\* The value of a call that indexed past the end of a slice: the Go runtime
\* panics and the process ends.  No string equals it.
Panic == <<"panic: index out of range">>

\* ------------------------------------------------------- reflect.Type
SignedInts   == {"int", "int8", "int16", "int32", "int64"}
UnsignedInts == {"uint", "uint8", "uint16", "uint32", "uint64"}
Floats       == {"float32", "float64"}
Structs      == {"time.Time", "gorm.Model", "custom.Time", "custom.Struct"}
OtherTypes   == {"[]byte", "*string"}
GoTypes      == SignedInts \cup UnsignedInts \cup Floats \cup Structs
                  \cup OtherTypes \cup {"string", "bool"}

\* reflect.Type.Kind()
Kind(t) ==
  CASE t \in SignedInts   -> "Int"
    [] t \in UnsignedInts -> "Uint"
    [] t \in Floats       -> "Float"
    [] t = "string"       -> "String"
    [] t = "bool"         -> "Bool"
    [] t \in Structs      -> "Struct"
    [] t = "[]byte"       -> "Slice"
    [] OTHER              -> "Ptr"

\* reflect.Type.Name(): the type's name within its package
TypeName(t) ==
  CASE t \in {"time.Time", "custom.Time"} -> "Time"
    [] t = "gorm.Model"                   -> "Model"
    [] t = "custom.Struct"                -> "Struct"
    [] t \in OtherTypes                   -> ""
    [] OTHER                              -> t

Impls == {"migrator", "main"}

Migrator_getPostgresType(goType) ==
  CASE Kind(goType) = "Int"    -> <<"B","I","G","I","N","T">>
    [] Kind(goType) = "Uint"   -> <<"B","I","G","I","N","T">>
    [] Kind(goType) = "String" -> <<"T","E","X","T">>
    [] Kind(goType) = "Bool"   -> <<"B","O","O","L","E","A","N">>
    [] Kind(goType) = "Float"  -> <<"F","L","O","A","T">>
    [] Kind(goType) = "Struct" /\ goType = "time.Time" -> <<"T","I","M","E","S","T","A","M","P">>
    [] OTHER                   -> <<"T","E","X","T">>

main_getPostgresType(t) ==
  CASE Kind(t) = "String" -> <<"V","A","R","C","H","A","R">>
    [] Kind(t) = "Int"    -> <<"B","I","G","I","N","T">>
    [] Kind(t) = "Float"  -> <<"D","O","U","B","L","E"," ","P","R","E","C","I","S","I","O","N">>
    [] Kind(t) = "Bool"   -> <<"B","O","O","L","E","A","N">>
    [] Kind(t) = "Struct" /\ TypeName(t) = "Time" -> <<"T","I","M","E","S","T","A","M","P">>
    [] OTHER              -> <<"T","E","X","T">>

getPostgresType(im, t) ==
  IF im = "migrator" THEN Migrator_getPostgresType(t) ELSE main_getPostgresType(t)


\* ------------------------------------------------- models and fields
\* A field is [Name, Type, Tag, Column]: Column is what
\* NamingStrategy.ColumnName("", field.Name) returns; a model is
\* [Name, Table, Fields] and Table what NamingStrategy.TableName returns.
\* gorm's naming strategy is a collaborator: its answers come with the input.
mkField(n, t, tag, col) == [Name |-> n, Type |-> t, Tag |-> tag, Column |-> col]

\* field.Name == "Model" && field.Type == reflect.TypeOf(gorm.Model{})
IsBaseField(field) == field.Name = "Model" /\ field.Type = "gorm.Model"

RECURSIVE FlatMap(_, _, _)
FlatMap(F(_), s, i) ==
  IF i > Len(s) THEN <<>> ELSE F(s[i]) \o FlatMap(F, s, i + 1)

\* ------------------------------------------- sql_helpers.go (Migrator)
Migrator_getDefault(gormTag) ==
  IF Contains(gormTag, <<"d","e","f","a","u","l","t",":">>) THEN Split(gormTag, ":")[2] ELSE <<>>

Migrator_getComment(gormTag) ==
  IF Contains(gormTag, <<"c","o","m","m","e","n","t",":">>) THEN Split(gormTag, ":")[2] ELSE <<>>

Migrator_getForeignKey(gormTag, columnName) ==
  IF Contains(gormTag, <<"f","o","r","e","i","g","n","K","e","y">>)
  THEN LET parts == Split(gormTag, ";")
           hits  == {i \in 1..Len(parts) : HasPrefix(parts[i], <<"f","o","r","e","i","g","n","K","e","y",":">>)}
       IN IF hits = {} THEN <<>>
          ELSE LET part == parts[CHOOSE i \in hits : \A j \in hits : i <= j]
                   references == Split(part, ":")[2]
               IN <<"F","O","R","E","I","G","N"," ","K","E","Y"," ","(">> \o columnName \o <<")"," ","R","E","F","E","R","E","N","C","E","S"," ">>
                    \o references \o <<"(","i","d",")">>
  ELSE <<>>

Migrator_buildColumnDefinition(columnName, goType, gormTag) ==
  LET columnDef == columnName \o <<" ">> \o Migrator_getPostgresType(goType)
      withNull  == IF Contains(gormTag, <<"n","o","t"," ","n","u","l","l">>)
                   THEN columnDef \o <<" ","N","O","T"," ","N","U","L","L">> ELSE columnDef
      defaultValue == Migrator_getDefault(gormTag)
  IN IF defaultValue # <<>>
     THEN withNull \o <<" ","D","E","F","A","U","L","T"," ">> \o defaultValue ELSE withNull

\* The four columns gorm.Model stands for.
BaseColumns ==
  << <<"i","d"," ","B","I","G","S","E","R","I","A","L"," ","P","R","I","M","A","R","Y"," ","K","E","Y">>,
     <<"c","r","e","a","t","e","d","_","a","t"," ","T","I","M","E","S","T","A","M","P"," ","N","O","T"," ","N","U","L","L"," ","D","E","F","A","U","L","T"," ","C","U","R","R","E","N","T","_","T","I","M","E","S","T","A","M","P">>,
     <<"u","p","d","a","t","e","d","_","a","t"," ","T","I","M","E","S","T","A","M","P"," ","N","O","T"," ","N","U","L","L"," ","D","E","F","A","U","L","T"," ","C","U","R","R","E","N","T","_","T","I","M","E","S","T","A","M","P">>,
     <<"d","e","l","e","t","e","d","_","a","t"," ","T","I","M","E","S","T","A","M","P"," ","N","U","L","L">> >>

IndexStatement(tableName, columnName) ==
  <<"C","R","E","A","T","E"," ","I","N","D","E","X"," ","i","d","x","_">> \o columnName \o <<" ","O","N"," ">> \o tableName
    \o <<" ","(">> \o columnName \o <<")",";">>

CommentStatement(tableName, columnName, comment) ==
  <<"C","O","M","M","E","N","T"," ","O","N"," ","C","O","L","U","M","N"," ">> \o tableName \o <<".">> \o columnName
    \o <<" ","I","S"," ","'">> \o comment \o <<"'",";">>

Migrator_generateCreateTableSQL(model) ==
  LET tableName == model.Table
      col(f) == IF IsBaseField(f) THEN BaseColumns
                ELSE <<Migrator_buildColumnDefinition(f.Column, f.Type, f.Tag)>>
      pk(f)  == IF ~IsBaseField(f) /\ Contains(f.Tag, <<"p","r","i","m","a","r","y","K","e","y">>)
                THEN <<f.Column>> ELSE <<>>
      fk(f)  == IF ~IsBaseField(f) /\ Migrator_getForeignKey(f.Tag, f.Column) # <<>>
                THEN <<Migrator_getForeignKey(f.Tag, f.Column)>> ELSE <<>>
      ix(f)  == IF ~IsBaseField(f) /\ Contains(f.Tag, <<"i","n","d","e","x">>)
                THEN <<IndexStatement(tableName, f.Column)>> ELSE <<>>
      cm(f)  == IF ~IsBaseField(f) /\ Migrator_getComment(f.Tag) # <<>>
                THEN <<CommentStatement(tableName, f.Column, Migrator_getComment(f.Tag))>>
                ELSE <<>>
      columns     == FlatMap(col, model.Fields, 1)
      primaryKeys == FlatMap(pk, model.Fields, 1)
      foreignKeys == FlatMap(fk, model.Fields, 1)
      indexes     == FlatMap(ix, model.Fields, 1)   \* collected, never used
      comments    == FlatMap(cm, model.Fields, 1)
      sql0 == <<"C","R","E","A","T","E"," ","T","A","B","L","E"," ">> \o tableName \o <<" ","(","\n">> \o Join(columns, <<",","\n">>)
      sql1 == IF Len(primaryKeys) > 0
              THEN sql0 \o <<",","\n","P","R","I","M","A","R","Y"," ","K","E","Y"," ","(">> \o Join(primaryKeys, <<","," ">>) \o <<")">>
              ELSE sql0
      sql2 == sql1 \o <<"\n",")",";">>
      sql3 == IF Len(foreignKeys) > 0
              THEN sql2 \o <<"\n">> \o Join(foreignKeys, <<"\n">>) \o <<"\n">> ELSE sql2
  IN IF Len(comments) > 0
     THEN sql3 \o <<"\n">> \o Join(comments, <<"\n">>) \o <<"\n">> ELSE sql3

\* ------------------------------------------------------------ main.go
main_getDefault(gormTag) ==
  LET parts == Split(gormTag, ":")
  IN IF Len(parts) < 2 THEN Panic ELSE parts[2]

main_getComment(gormTag) ==
  IF Contains(gormTag, <<"c","o","m","m","e","n","t">>)
  THEN LET parts == Split(gormTag, ":")
       IN IF Len(parts) < 2 THEN Panic ELSE parts[2]
  ELSE <<>>

main_getForeignKey(gormTag, columnName) ==
  IF Contains(gormTag, <<"f","o","r","e","i","g","n","K","e","y">>)
  THEN LET parts == Split(gormTag, ":")
       IN IF Len(parts) < 2 THEN Panic
          ELSE <<"F","O","R","E","I","G","N"," ","K","E","Y"," ","(">> \o columnName \o <<")"," ","R","E","F","E","R","E","N","C","E","S"," ">> \o parts[2]
  ELSE <<>>

main_buildColumnDefinition(columnName, fieldType, gormTag) ==
  LET columnDef  == columnName \o <<" ">> \o main_getPostgresType(fieldType)
      withNull   == IF Contains(gormTag, <<"n","o","t"," ","n","u","l","l">>)
                    THEN columnDef \o <<" ","N","O","T"," ","N","U","L","L">> ELSE columnDef
      withUnique == IF Contains(gormTag, <<"u","n","i","q","u","e">>)
                    THEN withNull \o <<" ","U","N","I","Q","U","E">> ELSE withNull
  IN IF Contains(gormTag, <<"d","e","f","a","u","l","t">>)
     THEN IF main_getDefault(gormTag) = Panic THEN Panic
          ELSE withUnique \o <<" ","D","E","F","A","U","L","T"," ">> \o main_getDefault(gormTag)
     ELSE withUnique

main_generateCreateTableSQL(model) ==
  LET tableName == model.Table
      col(f) == IF IsBaseField(f) THEN BaseColumns
                ELSE <<main_buildColumnDefinition(f.Column, f.Type, f.Tag)>>
      pk(f)  == IF ~IsBaseField(f) /\ Contains(f.Tag, <<"p","r","i","m","a","r","y","K","e","y">>)
                THEN <<f.Column>> ELSE <<>>
      \* foreignKeys, indexes and comments are collected and never used; a
      \* helper that panics while collecting them still ends the process
      panics == \E i \in 1..Len(model.Fields) :
                  LET f == model.Fields[i]
                  IN /\ ~IsBaseField(f)
                     /\ \/ main_buildColumnDefinition(f.Column, f.Type, f.Tag) = Panic
                        \/ main_getForeignKey(f.Tag, f.Column) = Panic
                        \/ main_getComment(f.Tag) = Panic
      columns0    == FlatMap(col, model.Fields, 1)
      primaryKeys == FlatMap(pk, model.Fields, 1)
      columns     == IF Len(primaryKeys) > 0
                     THEN Append(columns0,
                            <<"P","R","I","M","A","R","Y"," ","K","E","Y"," ","(">> \o Join(primaryKeys, <<","," ">>) \o <<")">>)
                     ELSE columns0
  IN IF panics THEN Panic
     ELSE IF Len(columns) = 0 THEN <<>>
     ELSE <<"C","R","E","A","T","E"," ","T","A","B","L","E"," ">> \o tableName \o <<" ","(","\n">>
            \o Join(columns, <<",","\n">>) \o <<"\n",")",";">>

getForeignKey(im, gormTag, columnName) ==
  IF im = "migrator" THEN Migrator_getForeignKey(gormTag, columnName)
  ELSE main_getForeignKey(gormTag, columnName)

getComment(im, gormTag) ==
  IF im = "migrator" THEN Migrator_getComment(gormTag) ELSE main_getComment(gormTag)

getDefault(im, gormTag) ==
  IF im = "migrator" THEN Migrator_getDefault(gormTag) ELSE main_getDefault(gormTag)

buildColumnDefinition(im, columnName, goType, gormTag) ==
  IF im = "migrator" THEN Migrator_buildColumnDefinition(columnName, goType, gormTag)
  ELSE main_buildColumnDefinition(columnName, goType, gormTag)

generateCreateTableSQL(im, model) ==
  IF im = "migrator" THEN Migrator_generateCreateTableSQL(model)
  ELSE main_generateCreateTableSQL(model)

\* ------------------------------- model_comparison.go (same in main.go)
AddColumnEntry(columnName, sqlType) ==
  <<"A","D","D"," ","C","O","L","U","M","N"," ">> \o columnName \o <<" ">> \o sqlType

\* A type change reported as an addition.
AlterColumnEntry_asAdd(columnName, sqlType) ==
  <<"A","D","D"," ","C","O","L","U","M","N"," ">> \o columnName \o <<" ">> \o sqlType

AlterColumnEntry(columnName, sqlType) ==
  <<"A","L","T","E","R"," ","C","O","L","U","M","N"," ">> \o columnName \o <<" ","T","Y","P","E"," ">> \o sqlType

\* The forward statement built from the reversing clauses.
generateAlterTableSQL_asRollback(tableName, differences) ==
  LET drop(diff) == IF HasPrefix(diff, <<"A","D","D"," ","C","O","L","U","M","N">>)
                    THEN <<<<"D","R","O","P"," ","C","O","L","U","M","N"," ">> \o Fields(diff)[3]>> ELSE <<diff>>
  IN IF Len(differences) = 0 THEN <<>>
     ELSE <<"A","L","T","E","R"," ","T","A","B","L","E"," ">> \o tableName \o <<"\n">>
            \o Join(FlatMap(drop, differences, 1), <<",","\n">>) \o <<";">>

generateAlterTableSQL(tableName, differences) ==
  IF Len(differences) = 0 THEN <<>>
  ELSE <<"A","L","T","E","R"," ","T","A","B","L","E"," ">> \o tableName \o <<"\n">> \o Join(differences, <<",","\n">>) \o <<";">>

\* The column name taken one word too far: strings.Fields(diff)[3].
generateRollbackAlterTableSQL_nextWord(tableName, differences) ==
  LET drop(diff) == IF HasPrefix(diff, <<"A","D","D"," ","C","O","L","U","M","N">>)
                    THEN <<<<"D","R","O","P"," ","C","O","L","U","M","N"," ">> \o Fields(diff)[4]>> ELSE <<>>
      panics == \E i \in 1..Len(differences) :
                  /\ HasPrefix(differences[i], <<"A","D","D"," ","C","O","L","U","M","N">>)
                  /\ Len(Fields(differences[i])) < 4
      rollbackStatements == FlatMap(drop, differences, 1)
  IN IF panics THEN Panic
     ELSE IF Len(rollbackStatements) = 0 THEN <<>>
     ELSE <<"A","L","T","E","R"," ","T","A","B","L","E"," ">> \o tableName \o <<"\n">>
            \o Join(rollbackStatements, <<",","\n">>) \o <<";">>

\* columnName := strings.Fields(diff)[2] indexes past the end of a
\* difference of fewer than three words
generateRollbackAlterTableSQL(tableName, differences) ==
  LET drop(diff) == IF HasPrefix(diff, <<"A","D","D"," ","C","O","L","U","M","N">>)
                    THEN <<<<"D","R","O","P"," ","C","O","L","U","M","N"," ">> \o Fields(diff)[3]>> ELSE <<>>
      panics == \E i \in 1..Len(differences) :
                  /\ HasPrefix(differences[i], <<"A","D","D"," ","C","O","L","U","M","N">>)
                  /\ Len(Fields(differences[i])) < 3
      rollbackStatements == FlatMap(drop, differences, 1)
  IN IF panics THEN Panic
     ELSE IF Len(rollbackStatements) = 0 THEN <<>>
     ELSE <<"A","L","T","E","R"," ","T","A","B","L","E"," ">> \o tableName \o <<"\n">>
            \o Join(rollbackStatements, <<",","\n">>) \o <<";">>

\* createMigrationFile: nothing is written for empty content; the file is
\* <timestamp>_<name>.<direction>.sql (the clock is left out).
createMigrationFile(fs, name, content, isUp) ==
  IF content = <<>> THEN fs
  ELSE Append(fs, [name |-> name,
                   direction |-> IF isUp THEN "up" ELSE "down",
                   content |-> content])


\* --------------------------------------------------- the model registry
\* The models a caller can register.  User is the model of main.go.
User ==
  [Name |-> "User", Table |-> <<"u","s","e","r","s">>,
   Fields |-> << mkField("Model", "gorm.Model", <<>>, <<"m","o","d","e","l">>),
                 mkField("Name", "string", <<>>, <<"n","a","m","e">>),
                 mkField("Email", "string", <<>>, <<"e","m","a","i","l">>) >>]

Empty == [Name |-> "Empty", Table |-> <<"e","m","p","t","i","e","s">>, Fields |-> <<>>]

Order ==
  [Name |-> "Order", Table |-> <<"o","r","d","e","r","s">>,
   Fields |-> << mkField("Total", "float64", <<"i","n","d","e","x",";","c","o","m","m","e","n","t",":","o","r","d","e","r"," ","t","o","t","a","l">>, <<"t","o","t","a","l">>) >>]

Link ==
  [Name |-> "Link", Table |-> <<"l","i","n","k","s">>,
   Fields |-> << mkField("Ref", "uint", <<"f","o","r","e","i","g","n","K","e","y">>, <<"r","e","f">>) >>]

Catalogue == {User, Empty, Order, Link}

\* ------------------------------------------------- the live database
\* db maps a table name to [exists, columns], columns a set of live columns
\* [name, type]: what information_schema answers for the whole execution.
NoTable  == [exists |-> FALSE, columns |-> {}]
NoColumn == <<>>

ToLower(s) == [i \in 1..Len(s) |-> FoldChar(s[i])]

\* Columns the live table has and the model does not.
ExtraColumns ==
  { [name |-> <<"i","d">>, type |-> <<"b","i","g","i","n","t">>],
    [name |-> <<"l","e","g","a","c","y">>, type |-> <<"i","n","t","e","g","e","r">>] }

\* What the catalog may report for the column of a field: the type either
\* generator maps the field to, in information_schema's lower case, or a
\* type neither maps it to.
LiveTypesFor(f) ==
  { ToLower(Migrator_getPostgresType(f.Type)),
    ToLower(main_getPostgresType(f.Type)),
    <<"c","h","a","r","a","c","t","e","r"," ","v","a","r","y","i","n","g">> }

NonBaseIndexes(model) ==
  {i \in 1..Len(model.Fields) : ~IsBaseField(model.Fields[i])}

TableStates(model) ==
  LET idx == NonBaseIndexes(model)
      all == UNION {LiveTypesFor(model.Fields[i]) : i \in idx} \cup {NoColumn}
      choices == {g \in [idx -> all] :
                    \A i \in idx :
                      g[i] \in LiveTypesFor(model.Fields[i]) \cup {NoColumn}}
  IN {NoTable} \cup
     { [exists |-> TRUE,
        columns |-> {[name |-> model.Fields[i].Column, type |-> g[i]] :
                       i \in {j \in idx : g[j] # NoColumn}} \cup ExtraColumns] :
       g \in choices }

DbStates(ms) ==
  LET tables == {ms[i].Table : i \in 1..Len(ms)}
      states == UNION {TableStates(ms[i]) : i \in 1..Len(ms)}
  IN {d \in [tables -> states] :
        \A i \in 1..Len(ms) : d[ms[i].Table] \in TableStates(ms[i])}

\* The three catalog queries, when they succeed.
TableExists(d, tableName) == d[tableName].exists

ColumnExists(d, tableName, columnName) ==
  \E c \in d[tableName].columns : c.name = columnName

ColumnType(d, tableName, columnName) ==
  (CHOOSE c \in d[tableName].columns : c.name = columnName).type

\* ------------------------------------------- inputs of the generators
MaxDiffs == 2      \* length of a difference list handed to a generator

GenTags ==
  { <<>>,
    <<"f","o","r","e","i","g","n","K","e","y",":","O","r","d","e","r","s",";","r","e","f","e","r","e","n","c","e","s",":","o","r","d","e","r","_","i","d">>,
    <<"f","o","r","e","i","g","n","K","e","y",":","O","r","d","e","r","s">>,
    <<"i","n","d","e","x",";","f","o","r","e","i","g","n","K","e","y",":","O","r","d","e","r","s",";","r","e","f","e","r","e","n","c","e","s",":","o","r","d","e","r","_","i","d">>,
    <<"n","o","t"," ","n","u","l","l",";","f","o","r","e","i","g","n","K","e","y",":","O","r","d","e","r","s">>,
    <<"f","o","r","e","i","g","n","K","e","y">>,
    <<"i","n","d","e","x">>,
    <<"c","o","m","m","e","n","t",":","h","e","l","l","o">>,
    <<"i","n","d","e","x",";","c","o","m","m","e","n","t",":","h","e","l","l","o">>,
    <<"c","o","m","m","e","n","t">>,
    <<"p","r","i","m","a","r","y","K","e","y">>,
    <<"n","o","t"," ","n","u","l","l">>,
    <<"u","n","i","q","u","e">>,
    <<"d","e","f","a","u","l","t",":","0">>,
    <<"d","e","f","a","u","l","t">>,
    <<"n","o","t"," ","n","u","l","l",";","u","n","i","q","u","e",";","d","e","f","a","u","l","t",":","0">>,
    <<"d","e","f","a","u","l","t",":","0",";","n","o","t"," ","n","u","l","l">> }

GenFields ==
  {mkField("F", t, <<>>, <<"f">>) : t \in GoTypes}
    \cup {mkField("OrderID", "uint", tag, <<"o","r","d","e","r","_","i","d">>) : tag \in GenTags}

GenModels ==
  Catalogue
    \cup {[Name |-> "Item", Table |-> <<"i","t","e","m","s">>, Fields |-> <<f>>] : f \in GenFields}
    \cup {[Name |-> "Item", Table |-> <<"i","t","e","m","s">>,
           Fields |-> << mkField("Model", "gorm.Model", <<>>, <<"m","o","d","e","l">>), f,
                         mkField("Note", "string", <<"i","n","d","e","x",";","c","o","m","m","e","n","t",":","n","o","t","e">>, <<"n","o","t","e">>) >>] :
            f \in {g \in GenFields : g.Name = "OrderID"}}

GenDiffs ==
  { AddColumnEntry(<<"e","m","a","i","l">>, <<"T","E","X","T">>),
    AddColumnEntry(<<"t","o","t","a","l">>, <<"D","O","U","B","L","E"," ","P","R","E","C","I","S","I","O","N">>),
    AlterColumnEntry(<<"e","m","a","i","l">>, <<"T","E","X","T">>),
    <<"A","D","D"," ","C","O","L","U","M","N">> }

RECURSIVE SeqsUpTo(_, _)
SeqsUpTo(set, n) ==
  IF n = 0 THEN {<<>>}
  ELSE LET shorter == SeqsUpTo(set, n - 1)
       IN shorter \cup {Append(s, x) : s \in shorter, x \in set}

GenArgs ==
  {[kind |-> "field", field |-> f] : f \in GenFields}
    \cup {[kind |-> "model", model |-> m] : m \in GenModels}
    \cup {[kind |-> "diffs", tableName |-> <<"u","s","e","r","s">>, differences |-> ds] :
            ds \in SeqsUpTo(GenDiffs, MaxDiffs)}

NoArg == [kind |-> "none"]

\* ---------------------------------------------------------------- state
VARIABLES
  impl,         \* "migrator": Migrator's methods; "main": main.go's functions
  models,       \* Migrator.models / the models slice of generateMigrations
  db,           \* the live schema the queries read
  pc,           \* "setup", "loop", "compare", "type", "done", "panic", "gen"
  runs,         \* calls of GenerateMigrations so far
  mi,           \* the loop's position in models
  fi,           \* compareModelToTable's position in the model's fields
  differences,  \* compareModelToTable's differences
  failed,       \* the fields of this model whose column query failed
  nfail,        \* queries that have failed so far
  upSQL,        \* the loop's upSQL
  downSQL,      \* the loop's downSQL
  files,        \* the migration files written, in order
  trace,        \* this run's finished iterations, one record per model
  arg,          \* the input of the generator calls (SpecGen)
  ret           \* the generator calls made on arg and their values (SpecGen)

vars == <<impl, models, db, pc, runs, mi, fi, differences, failed, nfail,
          upSQL, downSQL, files, trace, arg, ret>>

runVars == <<models, db, runs, mi, fi, differences, failed, nfail,
             upSQL, downSQL, files, trace>>

Init ==
  /\ impl \in Impls
  /\ models = <<>>
  /\ db = <<>>
  /\ pc = "setup"
  /\ runs = 0
  /\ mi = 1
  /\ fi = 1
  /\ differences = <<>>
  /\ failed = {}
  /\ nfail = 0
  /\ upSQL = <<>>
  /\ downSQL = <<>>
  /\ files = <<>>
  /\ trace = <<>>
  /\ arg = NoArg
  /\ ret = {}

\* ------------------------------------------------------------ the run
AddModel(model) ==
  /\ pc = "setup"
  /\ Len(models) < MaxModels
  /\ models' = Append(models, model)
  /\ UNCHANGED <<impl, db, pc, runs, mi, fi, differences, failed, nfail,
                 upSQL, downSQL, files, trace, arg, ret>>

\* GenerateMigrations is called; the database is in one of its states and
\* stays in it.
GenerateMigrations ==
  /\ pc = "setup"
  /\ db' \in DbStates(models)
  /\ pc' = "loop"
  /\ runs' = 1
  /\ mi' = 1
  /\ UNCHANGED <<impl, models, fi, differences, failed, nfail,
                 upSQL, downSQL, files, trace, arg, ret>>

\* GenerateMigrations is called again on the unchanged database.
GenerateMigrationsAgain ==
  /\ pc = "done"
  /\ runs < MaxRuns
  /\ pc' = "loop"
  /\ runs' = runs + 1
  /\ mi' = 1
  /\ trace' = <<>>
  /\ UNCHANGED <<impl, models, db, fi, differences, failed, nfail,
                 upSQL, downSQL, files, arg, ret>>

\* What one pass of the loop did: the files on disk before and after it.
Iteration(tableName, branch, diffs, fail, before, after) ==
  [table |-> tableName, branch |-> branch, differences |-> diffs,
   failed |-> fail, before |-> Len(before), after |-> Len(after)]

\* The failed query ends the run instead of the iteration.
TableExistsFails_abort ==
  /\ pc = "loop"
  /\ mi <= Len(models)
  /\ nfail < MaxFail
  /\ nfail' = nfail + 1
  /\ pc' = "done"
  /\ UNCHANGED <<impl, models, db, runs, mi, fi, differences, failed,
                 upSQL, downSQL, files, trace, arg, ret>>

\* The table-existence query fails: log, continue.
TableExistsFails ==
  /\ pc = "loop"
  /\ mi <= Len(models)
  /\ nfail < MaxFail
  /\ nfail' = nfail + 1
  /\ mi' = mi + 1
  /\ trace' = Append(trace, Iteration(models[mi].Table, "error", <<>>, {}, files, files))
  /\ UNCHANGED <<impl, models, db, pc, runs, fi, differences, failed,
                 upSQL, downSQL, files, arg, ret>>

\* The table does not exist: the create path.
CreateTable ==
  /\ pc = "loop"
  /\ mi <= Len(models)
  /\ ~TableExists(db, models[mi].Table)
  /\ LET model == models[mi]
         tableName == model.Table
         up == generateCreateTableSQL(impl, model)
         down == <<"D","R","O","P"," ","T","A","B","L","E"," ","I","F"," ","E","X","I","S","T","S"," ">> \o tableName \o <<";">>
         written == createMigrationFile(
                      createMigrationFile(files,
                        <<"c","r","e","a","t","e","_">> \o tableName \o <<"_","t","a","b","l","e">>, up, TRUE),
                      <<"d","r","o","p","_">> \o tableName \o <<"_","t","a","b","l","e">>, down, FALSE)
     IN IF up = Panic
        THEN /\ pc' = "panic"
             /\ upSQL' = up
             /\ UNCHANGED <<downSQL, files, trace, mi>>
        ELSE /\ upSQL' = up
             /\ downSQL' = down
             /\ files' = IF up = <<>> THEN files ELSE written
             /\ trace' = Append(trace,
                  Iteration(tableName, "create", <<>>, {}, files,
                            IF up = <<>> THEN files ELSE written))
             /\ mi' = mi + 1
             /\ pc' = "loop"
  /\ UNCHANGED <<impl, models, db, runs, fi, differences, failed, nfail, arg, ret>>

\* The table exists: compareModelToTable is entered.
BeginCompare ==
  /\ pc = "loop"
  /\ mi <= Len(models)
  /\ TableExists(db, models[mi].Table)
  /\ pc' = "compare"
  /\ fi' = 1
  /\ differences' = <<>>
  /\ failed' = {}
  /\ UNCHANGED <<impl, models, db, runs, mi, nfail, upSQL, downSQL, files,
                 trace, arg, ret>>

AtField ==
  /\ mi <= Len(models)
  /\ fi <= Len(models[mi].Fields)

\* Skip gorm.Model fields.
SkipBaseField ==
  /\ pc = "compare"
  /\ AtField
  /\ IsBaseField(models[mi].Fields[fi])
  /\ fi' = fi + 1
  /\ UNCHANGED <<impl, models, db, pc, runs, mi, differences, failed, nfail,
                 upSQL, downSQL, files, trace, arg, ret>>

\* The column-existence query fails: log, continue.
ColumnExistsFails ==
  /\ pc = "compare"
  /\ AtField
  /\ ~IsBaseField(models[mi].Fields[fi])
  /\ nfail < MaxFail
  /\ nfail' = nfail + 1
  /\ failed' = failed \cup {fi}
  /\ fi' = fi + 1
  /\ UNCHANGED <<impl, models, db, pc, runs, mi, differences,
                 upSQL, downSQL, files, trace, arg, ret>>

ColumnMissing ==
  /\ pc = "compare"
  /\ AtField
  /\ LET field == models[mi].Fields[fi]
     IN /\ ~IsBaseField(field)
        /\ ~ColumnExists(db, models[mi].Table, field.Column)
        /\ differences' = Append(differences,
             AddColumnEntry(field.Column, getPostgresType(impl, field.Type)))
  /\ fi' = fi + 1
  /\ UNCHANGED <<impl, models, db, pc, runs, mi, failed, nfail,
                 upSQL, downSQL, files, trace, arg, ret>>

ColumnPresent ==
  /\ pc = "compare"
  /\ AtField
  /\ ~IsBaseField(models[mi].Fields[fi])
  /\ ColumnExists(db, models[mi].Table, models[mi].Fields[fi].Column)
  /\ pc' = "type"
  /\ UNCHANGED <<impl, models, db, runs, mi, fi, differences, failed, nfail,
                 upSQL, downSQL, files, trace, arg, ret>>

\* The column-type query fails: log, continue.
ColumnTypeFails ==
  /\ pc = "type"
  /\ nfail < MaxFail
  /\ nfail' = nfail + 1
  /\ failed' = failed \cup {fi}
  /\ fi' = fi + 1
  /\ pc' = "compare"
  /\ UNCHANGED <<impl, models, db, runs, mi, differences,
                 upSQL, downSQL, files, trace, arg, ret>>

ColumnTypeRead ==
  /\ pc = "type"
  /\ LET field == models[mi].Fields[fi]
         columnType == ColumnType(db, models[mi].Table, field.Column)
         sqlType == getPostgresType(impl, field.Type)
     IN differences' =
          IF ~EqualFold(columnType, sqlType)
          THEN Append(differences, AlterColumnEntry(field.Column, sqlType))
          ELSE differences
  /\ fi' = fi + 1
  /\ pc' = "compare"
  /\ UNCHANGED <<impl, models, db, runs, mi, failed, nfail,
                 upSQL, downSQL, files, trace, arg, ret>>

\* compareModelToTable returns; the loop generates and writes the pair.
FinishCompare ==
  /\ pc = "compare"
  /\ mi <= Len(models)
  /\ fi > Len(models[mi].Fields)
  /\ LET tableName == models[mi].Table
         up == generateAlterTableSQL(tableName, differences)
         down == generateRollbackAlterTableSQL(tableName, differences)
         written == createMigrationFile(
                      createMigrationFile(files,
                        <<"a","l","t","e","r","_">> \o tableName \o <<"_","t","a","b","l","e">>, up, TRUE),
                      <<"r","o","l","l","b","a","c","k","_">> \o tableName \o <<"_","t","a","b","l","e">>, down, FALSE)
     IN IF Len(differences) > 0
        THEN IF down = Panic
             THEN /\ pc' = "panic"
                  /\ upSQL' = up
                  /\ UNCHANGED <<downSQL, files, trace, mi>>
             ELSE /\ upSQL' = up
                  /\ downSQL' = down
                  /\ files' = IF up = <<>> \/ down = <<>> THEN files ELSE written
                  /\ trace' = Append(trace,
                       Iteration(tableName, "alter", differences, failed, files,
                                 IF up = <<>> \/ down = <<>> THEN files
                                 ELSE written))
                  /\ mi' = mi + 1
                  /\ pc' = "loop"
        ELSE /\ trace' = Append(trace,
                  Iteration(tableName, "same", differences, failed, files, files))
             /\ mi' = mi + 1
             /\ pc' = "loop"
             /\ UNCHANGED <<upSQL, downSQL, files>>
  /\ UNCHANGED <<impl, models, db, runs, fi, differences, failed, nfail, arg, ret>>

\* return nil
Return ==
  /\ pc = "loop"
  /\ mi > Len(models)
  /\ pc' = "done"
  /\ UNCHANGED <<impl, models, db, runs, mi, fi, differences, failed, nfail,
                 upSQL, downSQL, files, trace, arg, ret>>

Next ==
  \/ \E model \in Catalogue : AddModel(model)
  \/ GenerateMigrations
  \/ GenerateMigrationsAgain
  \/ TableExistsFails
  \/ CreateTable
  \/ BeginCompare
  \/ SkipBaseField
  \/ ColumnExistsFails
  \/ ColumnMissing
  \/ ColumnPresent
  \/ ColumnTypeFails
  \/ ColumnTypeRead
  \/ FinishCompare
  \/ Return

Spec == Init /\ [][Next]_vars

\* ------------------------------------------- the generators, called alone
\* Each helper and generator applied to an input drawn from GenArgs; ret
\* collects [fn, val], the function called and the value it returned.
InitGen ==
  /\ impl \in Impls
  /\ arg \in GenArgs
  /\ ret = {}
  /\ pc = "gen"
  /\ models = <<>>
  /\ db = <<>>
  /\ runs = 0
  /\ mi = 1
  /\ fi = 1
  /\ differences = <<>>
  /\ failed = {}
  /\ nfail = 0
  /\ upSQL = <<>>
  /\ downSQL = <<>>
  /\ files = <<>>
  /\ trace = <<>>

Called(fn) == \E r \in ret : r.fn = fn

Call(kind, fn, val) ==
  /\ pc = "gen"
  /\ arg.kind = kind
  /\ ~Called(fn)
  /\ ret' = ret \cup {[fn |-> fn, val |-> val]}
  /\ UNCHANGED <<impl, pc, arg>>
  /\ UNCHANGED runVars

CallGetPostgresType ==
  Call("field", "getPostgresType", getPostgresType(impl, arg.field.Type))

CallGetForeignKey ==
  Call("field", "getForeignKey",
       getForeignKey(impl, arg.field.Tag, arg.field.Column))

CallGetComment ==
  Call("field", "getComment", getComment(impl, arg.field.Tag))

CallGetDefault ==
  Call("field", "getDefault", getDefault(impl, arg.field.Tag))

CallBuildColumnDefinition ==
  Call("field", "buildColumnDefinition",
       buildColumnDefinition(impl, arg.field.Column, arg.field.Type, arg.field.Tag))

CallGenerateCreateTableSQL ==
  Call("model", "generateCreateTableSQL", generateCreateTableSQL(impl, arg.model))

CallGenerateAlterTableSQL ==
  Call("diffs", "generateAlterTableSQL",
       generateAlterTableSQL(arg.tableName, arg.differences))

CallGenerateRollbackAlterTableSQL ==
  Call("diffs", "generateRollbackAlterTableSQL",
       generateRollbackAlterTableSQL(arg.tableName, arg.differences))

NextGen ==
  \/ CallGetPostgresType
  \/ CallGetForeignKey
  \/ CallGetComment
  \/ CallGetDefault
  \/ CallBuildColumnDefinition
  \/ CallGenerateCreateTableSQL
  \/ CallGenerateAlterTableSQL
  \/ CallGenerateRollbackAlterTableSQL

SpecGen == InitGen /\ [][NextGen]_vars

\* ================================================================ claims
\* The difference a field calls for, read off the live table: the text
\* "ADD COLUMN <col> <type>" when no live column has the field's name,
\* "ALTER COLUMN <col> TYPE <type>" when one has and its type, lower-cased,
\* is not the mapped type lower-cased, and nothing otherwise.
WantedEntry(im, d, model, i) ==
  LET f    == model.Fields[i]
      ty   == getPostgresType(im, f.Type)
      live == {c \in d[model.Table].columns : c.name = f.Column}
  IN IF IsBaseField(f) THEN <<>>
     ELSE IF live = {}
          THEN <<Join(<<<<"A","D","D">>, <<"C","O","L","U","M","N">>, f.Column, ty>>, <<" ">>)>>
     ELSE IF \E c \in live : ToLower(c.type) # ToLower(ty)
          THEN <<Join(<<<<"A","L","T","E","R">>, <<"C","O","L","U","M","N">>, f.Column, <<"T","Y","P","E">>, ty>>, <<" ">>)>>
     ELSE <<>>

\* The wanted entries of fields 1..n in declaration order, those in skip left out.
RECURSIVE WantedDifferences(_, _, _, _, _)
WantedDifferences(im, d, model, n, skip) ==
  IF n = 0 THEN <<>>
  ELSE WantedDifferences(im, d, model, n - 1, skip)
         \o (IF n \in skip THEN <<>> ELSE WantedEntry(im, d, model, n))

InCompare == pc \in {"compare", "type"}

\* C1: when every introspection query of a compareModelToTable call has
\* succeeded, the differences collected after the first fi-1 fields are
\* exactly the wanted entries of those fields, in declaration order and with
\* nothing else: ADD COLUMN for an absent column, ALTER COLUMN ... TYPE for a
\* present column of another type (case-insensitively), nothing for a match
\* and nothing for gorm.Model.  At fi = NumField+1 this is the returned list.
C1_CompareReturnsExactList ==
  (InCompare /\ failed = {}) =>
     differences = WantedDifferences(impl, db, models[mi], fi - 1, {})

\* C1 witness: a call without a failed query is about to return an ADD
\* COLUMN entry followed by an ALTER COLUMN entry, after skipping gorm.Model.
C1_Witness ==
  /\ pc = "compare"
  /\ failed = {}
  /\ mi <= Len(models)
  /\ fi = Len(models[mi].Fields) + 1
  /\ \E i \in 1..Len(models[mi].Fields) : IsBaseField(models[mi].Fields[i])
  /\ Len(differences) = 2
  /\ HasPrefix(differences[1], <<"A","D","D"," ","C","O","L","U","M","N"," ">>)
  /\ HasPrefix(differences[2], <<"A","L","T","E","R"," ","C","O","L","U","M","N"," ">>)

\* C3: a failed query is confined to what it asked about.  (a) The
\* differences of a compareModelToTable call are the failure-free ones with
\* the entries of the failed columns removed.  (b) An iteration whose
\* table-existence query failed wrote no file, every iteration starts where
\* the one before it left the files, and a run that returns has one iteration
\* per registered model, in order.  (c) The only abort is the panic of the
\* create-table generator on a table the query reported absent.
C3_FailureConfined ==
  /\ InCompare =>
       differences = WantedDifferences(impl, db, models[mi], fi - 1, failed)
  /\ \A k \in 1..Len(trace) :
       /\ trace[k].table = models[k].Table
       /\ trace[k].branch = "error" => trace[k].after = trace[k].before
       /\ k > 1 => trace[k].before = trace[k - 1].after
  /\ (pc \in {"loop", "done"} /\ trace # <<>>) =>
       /\ Len(trace) = mi - 1
       /\ Len(files) = trace[Len(trace)].after
  /\ pc = "done" => Len(trace) = Len(models)
  /\ pc = "panic" =>
       /\ ~TableExists(db, models[mi].Table)
       /\ generateCreateTableSQL(impl, models[mi]) = Panic

\* C3 witness: a run has returned after a failed table-existence query on
\* its first model and a failed column query in its second, which still
\* produced a difference and its files.
C3_Witness ==
  /\ pc = "done"
  /\ Len(trace) = 2
  /\ trace[1].branch = "error"
  /\ trace[2].branch = "alter"
  /\ trace[2].failed # {}
  /\ trace[2].after > trace[2].before

OnlyTypeChanges(diffs) ==
  /\ diffs # <<>>
  /\ \A j \in 1..Len(diffs) : HasPrefix(diffs[j], <<"A","L","T","E","R"," ","C","O","L","U","M","N"," ">>)

\* C2: an iteration whose differences are all type changes writes exactly
\* one file, the forward alter migration of its table, and no down file.
C2_TypeChangeWritesForwardOnly ==
  \A k \in 1..Len(trace) :
    (trace[k].branch = "alter" /\ OnlyTypeChanges(trace[k].differences)) =>
       /\ trace[k].after = trace[k].before + 1
       /\ files[trace[k].after].direction = "up"
       /\ files[trace[k].after].name = <<"a","l","t","e","r","_">> \o trace[k].table \o <<"_","t","a","b","l","e">>
       /\ files[trace[k].after].content =
            generateAlterTableSQL(trace[k].table, trace[k].differences)

\* C4: the create path of a model without fields produces no SQL and no
\* file: the iteration leaves the files as they were.
C4_EmptyModelWritesNothing ==
  \A k \in 1..Len(trace) :
    (trace[k].branch = "create" /\ models[k].Fields = <<>>) =>
       trace[k].after = trace[k].before

\* ---- the database applying a statement (what ALTER TABLE does to the
\* ---- set of column names of a table)
WithoutLast(s) == SubSeq(s, 1, Len(s) - 1)

\* The clauses of "ALTER TABLE <t>\n<clause>,\n<clause>;", in order.
Clauses(sql) ==
  IF sql = <<>> THEN <<>>
  ELSE LET lines == Split(WithoutLast(sql), "\n")
       IN [i \in 1..(Len(lines) - 1) |->
             IF lines[i + 1] # <<>> /\ lines[i + 1][Len(lines[i + 1])] = ","
             THEN WithoutLast(lines[i + 1]) ELSE lines[i + 1]]

ApplyClause(cols, clause) ==
  LET w == Fields(clause)
  IN IF Len(w) >= 3 /\ w[1] = <<"A","D","D">> /\ w[2] = <<"C","O","L","U","M","N">> THEN cols \cup {w[3]}
     ELSE IF Len(w) >= 3 /\ w[1] = <<"D","R","O","P">> /\ w[2] = <<"C","O","L","U","M","N">> THEN cols \ {w[3]}
     ELSE cols

RECURSIVE ApplyClauses(_, _, _)
ApplyClauses(cols, cl, i) ==
  IF i > Len(cl) THEN cols ELSE ApplyClauses(ApplyClause(cols, cl[i]), cl, i + 1)

ApplySQL(cols, sql) == ApplyClauses(cols, Clauses(sql), 1)

\* An AddColumn entry: "ADD COLUMN <name> <type>".
IsAddColumn(diff) ==
  LET w == Fields(diff)
  IN Len(w) >= 4 /\ w[1] = <<"A","D","D">> /\ w[2] = <<"C","O","L","U","M","N">>

AddedColumn(diff) == Fields(diff)[3]

ColumnNames == {<<"i","d">>, <<"n","a","m","e">>, <<"e","m","a","i","l">>, <<"t","o","t","a","l">>, <<"l","e","g","a","c","y">>}

\* C5: for a difference list of AddColumn entries only, the rollback SQL has
\* exactly one DROP COLUMN clause per entry, naming the entry's column, in
\* the entries' order; and on every column set without those columns the
\* alter SQL followed by the rollback SQL gives the set back.
C5_RollbackUndoesAddColumns ==
  (arg.kind = "diffs"
     /\ \A j \in 1..Len(arg.differences) : IsAddColumn(arg.differences[j])) =>
    \A r \in ret : r.fn = "generateRollbackAlterTableSQL" =>
      /\ r.val # Panic
      /\ Clauses(r.val) =
           [j \in 1..Len(arg.differences) |->
              <<"D","R","O","P"," ","C","O","L","U","M","N"," ">> \o AddedColumn(arg.differences[j])]
      /\ \A a \in ret : a.fn = "generateAlterTableSQL" =>
           \A cols \in SUBSET ColumnNames :
             (\A j \in 1..Len(arg.differences) :
                AddedColumn(arg.differences[j]) \notin cols) =>
               ApplySQL(ApplySQL(cols, a.val), r.val) = cols

\* C5 witness: both generators were called on two AddColumn entries of
\* different columns, one of them of a two-word type.
C5_Witness ==
  /\ arg.kind = "diffs"
  /\ Len(arg.differences) = 2
  /\ \A j \in 1..2 : IsAddColumn(arg.differences[j])
  /\ AddedColumn(arg.differences[1]) # AddedColumn(arg.differences[2])
  /\ Called("generateAlterTableSQL")
  /\ Called("generateRollbackAlterTableSQL")

\* The columns of the model's fields.
ModelColumns(model) ==
  {model.Fields[i].Column : i \in NonBaseIndexes(model)}

\* No word of a difference is a live column the model has no field for, and
\* the column of every difference is a column of the model.
Additive(d, model, diffs) ==
  \A j \in 1..Len(diffs) :
    LET w == Fields(diffs[j])
    IN /\ Len(w) >= 3 /\ w[3] \in ModelColumns(model)
       /\ \A c \in d[model.Table].columns :
            c.name \notin ModelColumns(model) =>
              \A n \in 1..Len(w) : w[n] # c.name

\* C6: the diff is additive only: no difference, collected or returned,
\* references a live column that is not a field of the model, and neither the
\* forward SQL of the loop nor a forward file holds a DROP COLUMN clause.
C6_DiffIsAdditiveOnly ==
  /\ InCompare => Additive(db, models[mi], differences)
  /\ \A k \in 1..Len(trace) :
       trace[k].branch \in {"alter", "same"} =>
         Additive(db, models[k], trace[k].differences)
  /\ ~Contains(upSQL, <<"D","R","O","P"," ","C","O","L","U","M","N">>)
  /\ \A n \in 1..Len(files) :
       files[n].direction = "up" => ~Contains(files[n].content, <<"D","R","O","P"," ","C","O","L","U","M","N">>)

\* C6 witness: a table with live columns the model does not have got a
\* difference, and the forward alter file was written.
C6_Witness ==
  /\ pc = "loop"
  /\ trace # <<>>
  /\ LET t == trace[Len(trace)]
     IN /\ t.branch = "alter"
        /\ t.after = t.before + 2
        /\ \E c \in db[t.table].columns : c.name \notin ModelColumns(models[Len(trace)])
        /\ files[t.before + 1].direction = "up"
        /\ Contains(files[t.before + 1].content, <<"A","D","D"," ","C","O","L","U","M","N">>)

\* Every table exists and every non-base field has its column, of the mapped
\* type up to case.
NoOpDatabase(im, ms, d) ==
  \A k \in 1..Len(ms) :
    /\ d[ms[k].Table].exists
    /\ \A i \in NonBaseIndexes(ms[k]) :
         \E c \in d[ms[k].Table].columns :
            /\ c.name = ms[k].Fields[i].Column
            /\ ToLower(c.type) = ToLower(getPostgresType(im, ms[k].Fields[i].Type))

\* C7: on a database that matches every registered model, every difference
\* list is empty, both alter generators return the empty string on it, no
\* file is written and the run does not abort, in the first run and in the
\* runs repeated on the unchanged database.
C7_NoOpRunWritesNothing ==
  (pc \in {"loop", "compare", "type", "done", "panic"}
     /\ NoOpDatabase(impl, models, db)) =>
    /\ differences = <<>>
    /\ \A k \in 1..Len(trace) :
         /\ trace[k].branch \in {"same", "error"}
         /\ trace[k].differences = <<>>
    /\ generateAlterTableSQL(<<"u","s","e","r","s">>, differences) = <<>>
    /\ generateRollbackAlterTableSQL(<<"u","s","e","r","s">>, differences) = <<>>
    /\ upSQL = <<>> /\ downSQL = <<>>
    /\ files = <<>>
    /\ pc # "panic"

\* C7 witness: the second run on a matching database has returned, having
\* compared a model of two columns, with no query failed.
C7_Witness ==
  /\ pc = "done"
  /\ runs = 2
  /\ nfail = 0
  /\ NoOpDatabase(impl, models, db)
  /\ \E k \in 1..Len(models) : Cardinality(NonBaseIndexes(models[k])) = 2
  /\ Len(trace) = Len(models)
  /\ files = <<>>

\* The type the mapping table gives a Go type.
TableType(t) ==
  CASE t \in SignedInts \cup UnsignedInts -> <<"B","I","G","I","N","T">>
    [] t = "string"    -> <<"T","E","X","T">>
    [] t = "bool"      -> <<"B","O","O","L","E","A","N">>
    [] t = "time.Time" -> <<"T","I","M","E","S","T","A","M","P">>
    [] OTHER           -> <<"T","E","X","T">>

\* C8: getPostgresType, in both generators, follows the mapping table:
\* BIGINT for every signed and unsigned integer, TEXT for string, BOOLEAN,
\* TIMESTAMP for time.Time, one and the same name for both floats in both
\* generators, TEXT for anything else; never empty, never a panic.
C8_TypeMappingFollowsTable ==
  arg.kind = "field" =>
    \A r \in ret : r.fn = "getPostgresType" =>
      LET t == arg.field.Type
      IN /\ r.val # <<>> /\ r.val # Panic
         /\ t \notin Floats => r.val = TableType(t)
         /\ t \in Floats =>
              /\ r.val \in {<<"F","L","O","A","T">>, <<"D","O","U","B","L","E"," ","P","R","E","C","I","S","I","O","N">>}
              /\ \A u \in Floats :
                   /\ Migrator_getPostgresType(u) = r.val
                   /\ main_getPostgresType(u) = r.val

\* ---- annotations, token by token
TagParts(gormTag) == Split(gormTag, ";")

HasToken(gormTag, token) ==
  \E i \in 1..Len(TagParts(gormTag)) : TagParts(gormTag)[i] = token

HasKey(gormTag, key) ==
  \E i \in 1..Len(TagParts(gormTag)) : HasPrefix(TagParts(gormTag)[i], key \o <<":">>)

\* The value of the first token "<key>:<value>".
KeyValue(gormTag, key) ==
  LET parts == TagParts(gormTag)
      i == CHOOSE n \in 1..Len(parts) :
             /\ HasPrefix(parts[n], key \o <<":">>)
             /\ \A m \in 1..(n - 1) : ~HasPrefix(parts[m], key \o <<":">>)
  IN SubSeq(parts[i], Len(key) + 2, Len(parts[i]))

\* The text after the first ");" that closes the CREATE TABLE statement.
AfterCreateTable(sql) ==
  IF Contains(sql, <<"\n",")",";">>)
  THEN LET i == CHOOSE n \in 1..Len(sql) :
                  /\ SubSeq(sql, n, n + 2) = <<"\n",")",";">>
                  /\ \A m \in 1..(n - 1) : SubSeq(sql, m, m + 2) # <<"\n",")",";">>
       IN SubSeq(sql, i + 3, Len(sql))
  ELSE <<>>

\* C9: the create SQL holds, after the CREATE TABLE statement, a FOREIGN KEY
\* statement for every field annotated foreignKey:, a CREATE INDEX idx_<col>
\* statement for every field annotated index, and a COMMENT ON COLUMN
\* statement for every field annotated comment:.
C9_ConstraintStatementsEmitted ==
  arg.kind = "model" =>
    \A r \in ret : (r.fn = "generateCreateTableSQL" /\ r.val # Panic) =>
      \A i \in NonBaseIndexes(arg.model) :
        LET f    == arg.model.Fields[i]
            rest == AfterCreateTable(r.val)
        IN /\ HasKey(f.Tag, <<"f","o","r","e","i","g","n","K","e","y">>) =>
                Contains(rest, <<"F","O","R","E","I","G","N"," ","K","E","Y"," ","(">> \o f.Column \o <<")"," ","R","E","F","E","R","E","N","C","E","S"," ">>
                                 \o KeyValue(f.Tag, <<"f","o","r","e","i","g","n","K","e","y">>))
           /\ HasToken(f.Tag, <<"i","n","d","e","x">>) =>
                Contains(rest, IndexStatement(arg.model.Table, f.Column))
           /\ HasKey(f.Tag, <<"c","o","m","m","e","n","t">>) =>
                Contains(rest, CommentStatement(arg.model.Table, f.Column,
                                                KeyValue(f.Tag, <<"c","o","m","m","e","n","t">>)))

\* C10: getForeignKey on foreignKey:<table> gives
\* FOREIGN KEY (<column>) REFERENCES <table>(<col>), <col> being the value of
\* references: when the annotation has one and id when it has none, wherever
\* the foreignKey token stands in the annotation.
C10_ForeignKeyUsesReferences ==
  arg.kind = "field" =>
    \A r \in ret : (r.fn = "getForeignKey" /\ HasKey(arg.field.Tag, <<"f","o","r","e","i","g","n","K","e","y">>)) =>
      r.val = <<"F","O","R","E","I","G","N"," ","K","E","Y"," ","(">> \o arg.field.Column \o <<")"," ","R","E","F","E","R","E","N","C","E","S"," ">>
                \o KeyValue(arg.field.Tag, <<"f","o","r","e","i","g","n","K","e","y">>) \o <<"(">>
                \o (IF HasKey(arg.field.Tag, <<"r","e","f","e","r","e","n","c","e","s">>)
                    THEN KeyValue(arg.field.Tag, <<"r","e","f","e","r","e","n","c","e","s">>) ELSE <<"i","d">>)
                \o <<")">>

\* An annotation made of whole tokens: none of its tokens is the bare keyword
\* default, and at most one of them is a default:<value>.
WellFormedDefault(gormTag) ==
  /\ ~HasToken(gormTag, <<"d","e","f","a","u","l","t">>)
  /\ Cardinality({i \in 1..Len(TagParts(gormTag)) :
                    HasPrefix(TagParts(gormTag)[i], <<"d","e","f","a","u","l","t",":">>)}) <= 1

\* The column definition the rendering rule
\* <name> <sql_type>[ NOT NULL][ UNIQUE][ DEFAULT <value>] gives.
ColumnRendering(im, columnName, goType, gormTag) ==
  columnName \o <<" ">> \o getPostgresType(im, goType)
    \o (IF HasToken(gormTag, <<"n","o","t"," ","n","u","l","l">>) THEN <<" ","N","O","T"," ","N","U","L","L">> ELSE <<>>)
    \o (IF HasToken(gormTag, <<"u","n","i","q","u","e">>) THEN <<" ","U","N","I","Q","U","E">> ELSE <<>>)
    \o (IF HasKey(gormTag, <<"d","e","f","a","u","l","t">>)
        THEN <<" ","D","E","F","A","U","L","T"," ">> \o KeyValue(gormTag, <<"d","e","f","a","u","l","t">>) ELSE <<>>)

\* C11: buildColumnDefinition returns <name> <sql_type>, then NOT NULL exactly
\* when the annotation has the token not null, UNIQUE exactly when it has
\* unique, DEFAULT <value> exactly when it has default:<value> with that
\* token's own value, in any order of the tokens; an empty annotation gives
\* just <name> <sql_type>.
C11_ColumnDefinitionRendersTokens ==
  arg.kind = "field" =>
    \A r \in ret :
      (r.fn = "buildColumnDefinition" /\ WellFormedDefault(arg.field.Tag)) =>
        r.val = ColumnRendering(impl, arg.field.Column, arg.field.Type,
                                arg.field.Tag)

\* C12: no generator and no helper indexes past the end of a split result:
\* whatever the annotation or the difference list, every call returns a
\* string and the run never aborts.
C12_GeneratorsNeverRaise ==
  /\ pc # "panic"
  /\ \A r \in ret : r.val # Panic

TypeOK ==
  /\ impl \in Impls
  /\ pc \in {"setup", "loop", "compare", "type", "done", "panic", "gen"}
  /\ Len(models) <= MaxModels
  /\ nfail \in 0..MaxFail
  /\ runs \in 0..MaxRuns
=============================================================================
